---------------------------- MODULE Spec2Model ----------------------------
(***************************************************************************)
(* Model of the audio visualizer: the capture pipeline of audio.rs (the    *)
(* hardware callback, the ring buffer, the FFT task, the result channel,   *)
(* get_fft_data) and the application of main.rs that owns it (App::new,    *)
(* App::run, switch_audio_source, quit).                                   *)
(*                                                                         *)
(* Three kinds of process take steps: the platform's audio thread (the     *)
(* callback of build_stream, one step per try_push), the FFT task of each  *)
(* AudioProcessor ever built (one step per await point or try_pop), and    *)
(* the main thread (App::new, then the loop of App::run).                  *)
(***************************************************************************)
EXTENDS Integers, Sequences, FiniteSets, TLC

\* ------------------------------------------------------------ constants

\* audio.rs:89  let fft_size = 1024;
fft_size == 1024
\* the mutant of CHANNEL_CAPACITY: room for one frame more
CHANNEL_CAPACITY_more == 10 + 1

\* audio.rs:62  mpsc::channel(10)
CHANNEL_CAPACITY == 10
\* main.rs:103  fft_data: vec![0.0; 512]
INITIAL_BINS == 512
\* main.rs:195  .unwrap_or(44100)
FALLBACK_SAMPLE_RATE == 44100

\* -------------------------------------------------------------- bounds

\* The FFT task's window loops run Window times, Window being fft_size cut
\* down to MaxWindow samples; sample rates (ring buffer capacities) are
\* scaled with it.  Frame lengths are computed from fft_size itself.
MaxWindow == 2
\* frames of interleaved samples handed to one callback invocation
MaxCbFrames == 2
\* entries of App.available_devices
MaxDevices == 2
\* AudioProcessors successfully built in one run
MaxPipelines == 2
\* frames published in one run of the application (Spec): the hardware
\* stops delivering data once this many frames were published
MaxFrames == 2
\* the same for one pipeline run on its own (PipeSpec): enough to fill the
\* result channel and suspend the FFT task on it
MaxBacklog == 11

Min(a, b) == IF a < b THEN a ELSE b
Max(a, b) == IF a > b THEN a ELSE b

Window == Min(fft_size, MaxWindow)
\* audio.rs:52-54  device.default_input_config() of device d (0: the
\* default device): mono with a ring buffer of exactly one window, or
\* stereo with a ring buffer one sample larger
default_input_config(d) ==
    [sample_rate |-> Window + (d % 2), channels |-> 1 + (d % 2)]
\* raw samples (after s.into()); even, so that the mean over 1 or 2
\* channels is exact in integers as it is exact in f32 for these values
RawSamples == {0, 2}
\* a silent input
Silence == {0}

Pipes == 1..MaxPipelines

VARIABLES
    \* ---- environment
    default_device,   \* host.default_input_device().is_some()
    show_help,        \* App.show_help
    key,              \* the key press handle_crossterm_events has read in
                      \* this turn of the loop: <<>> = none
    config,           \* App.config: bar_count, color_scheme, refresh_rate
                      \* (sensitivity is an f32 and is not represented)
    \* ---- App (main.rs:51-68)
    pc,               \* position of the main thread
    running,          \* App.running
    audio_processor,  \* App.audio_processor: 0 = None, p = Some(pipeline p)
    fft_data,         \* App.fft_data
    available_devices,\* App.available_devices.len(); device d is entry d-1
    current_device_index, \* App.current_device_index (0-based)
    old_device_index, \* local of switch_audio_source
    latest,           \* local of get_fft_data: <<>> = None, <<f>> = Some(f)
    \* ---- AudioProcessor::new in progress
    ctor_pc,          \* "idle", "start", "alloc", "build", "play", "spawn"
    ctor_dev,         \* its argument: 0 = None, d = Some(device d)
    ctor_p,           \* the pipeline it is building
    \* ---- pipelines (one per AudioProcessor::new that got past its config)
    stream,           \* "none", "config", "alloc", "built", "playing", "dropped"
    device_of,        \* the device argument the pipeline was built with
    sample_rate,      \* the configuration's sample rate (AudioProcessor.sample_rate)
    buffer_size,      \* capacity of the ring buffer: 0 = there is none
    channels,         \* channel count captured by the callback
    rb,               \* ring buffer contents, oldest first
    cb,               \* chunks the running callback invocation has left
    task,             \* FFT task: "none","check","pop","send","exit","cancelled"
    popped,           \* try_pop calls made for the current window
    chan,             \* result channel contents, oldest first
    rx_alive,         \* fft_rx not yet dropped
    \* ---- history (not program state)
    clock,            \* frames published so far, over all pipelines
    last_pub,         \* stamp of the last frame published on each channel
    unseen,           \* frames published since get_fft_data last returned
    push_result,      \* what the callback's last try_push returned
    frames_in,        \* frames in the buffer of the callback's last invocation
    attempts,         \* try_push calls that invocation has made
    accepted,         \* the samples whose try_push returned Ok, in push order,
                      \* less those of the windows already completed
    samples           \* the FFT task's samples[0..popped]: the window so far

app_vars == <<pc, running, audio_processor, fft_data, available_devices,
              current_device_index, old_device_index, latest>>
ctor_vars == <<ctor_pc, ctor_dev, ctor_p>>
pipe_vars == <<stream, device_of, sample_rate, buffer_size, channels, rb, cb, task,
               popped, chan, rx_alive>>
hist_vars == <<clock, last_pub, unseen, push_result, frames_in, attempts,
              accepted, samples>>
vars == <<default_device, show_help, key, config, app_vars, ctor_vars, pipe_vars, hist_vars>>


\* ------------------------------------------------------------- Config

\* config.rs:80-88  enum ColorScheme, in declaration order
ColorSchemes == <<"Rainbow", "Blue", "Green", "Red", "Purple", "Cyan", "Yellow">>

\* config.rs:14-23  Config::default (sensitivity 1.0 is not represented)
Config_default == [bar_count |-> 32, color_scheme |-> "Rainbow", refresh_rate |-> 16]

\* config.rs:27-31  Config::increase_bar_count
increase_bar_count(b) == IF b < 128 THEN Min(b + 8, 128) ELSE b

\* the mutant of decrease_bar_count: the guard compares with 0, and the
\* result is not clamped
decrease_bar_count_to_zero(b) == IF b > 0 THEN b - 8 ELSE b

\* config.rs:34-38  Config::decrease_bar_count
decrease_bar_count(b) == IF b > 8 THEN Max(b - 8, 8) ELSE b

\* config.rs:41-45  Config::increase_refresh_rate (a shorter delay)
increase_refresh_rate(r) == IF r > 8 THEN Max(r - 4, 8) ELSE r

\* config.rs:48-52  Config::decrease_refresh_rate (a longer delay)
decrease_refresh_rate(r) == IF r < 100 THEN Min(r + 4, 100) ELSE r

\* config.rs:55-65  Config::next_color_scheme
next_color_scheme(c) ==
    LET i == CHOOSE k \in 1..Len(ColorSchemes) : ColorSchemes[k] = c
    IN ColorSchemes[(i % Len(ColorSchemes)) + 1]

\* ------------------------------------------------------------- helpers

RECURSIVE Sum(_)
Sum(s) == IF s = <<>> THEN 0 ELSE Head(s) + Sum(Tail(s))

SeqsUpTo(S, n) == UNION {[1..k -> S] : k \in 1..n}

\* a frame: which pipeline made it, its publication stamp, its length
Frame(p, t, n) == [pipe |-> p, stamp |-> t, len |-> n]

\* the mutant of MagnitudeLen: the mirrored half is kept too
MagnitudeLen_all == fft_size

\* audio.rs:116-117  buffer.iter().take(fft_size / 2) over fft_size entries
MagnitudeLen == Min(fft_size, fft_size \div 2)


\* --------------------------------------------------- ring buffer (ringbuf)

\* the mutant of try_push: a full buffer evicts its oldest sample
try_push_evict(buf, capacity, v) ==
    IF Len(buf) < capacity
    THEN [ok |-> TRUE, buf |-> Append(buf, v)]
    ELSE [ok |-> FALSE, buf |-> Append(Tail(buf), v)]

\* audio.rs:159  producer.try_push(sample): appended when there is room,
\* refused (Err(sample)) when the buffer is full; never waits
try_push(buf, capacity, v) ==
    IF Len(buf) < capacity
    THEN [ok |-> TRUE, buf |-> Append(buf, v)]
    ELSE [ok |-> FALSE, buf |-> buf]

\* the mutant of try_pop: the oldest sample is read and left in the buffer
try_pop_peek(buf) ==
    IF buf = <<>>
    THEN [ok |-> FALSE, value |-> 0, buf |-> buf]
    ELSE [ok |-> TRUE, value |-> Head(buf), buf |-> buf]

\* the mutant of try_pop: the newest sample is taken, not the oldest
try_pop_newest(buf) ==
    IF buf = <<>>
    THEN [ok |-> FALSE, value |-> 0, buf |-> buf]
    ELSE [ok |-> TRUE, value |-> buf[Len(buf)], buf |-> SubSeq(buf, 1, Len(buf) - 1)]

\* audio.rs:98  consumer.try_pop().unwrap_or(0.0)
try_pop(buf) ==
    IF buf = <<>>
    THEN [ok |-> FALSE, value |-> 0, buf |-> buf]
    ELSE [ok |-> TRUE, value |-> Head(buf), buf |-> Tail(buf)]

\* the mutant of occupied_len: one more than the buffer holds
occupied_len_plus(buf) == Len(buf) + 1

\* audio.rs:96  consumer.occupied_len()
occupied_len(buf) == Len(buf)

\* ------------------------------------------- the callback (audio thread)

\* the mutant of Mean: the first channel stands for the frame
Mean_first(chunk, n) == chunk[1]

\* audio.rs:157  chunk.iter().map(|&s| s.into()).sum::<f32>() / channels as f32
Mean(chunk, n) == Sum(chunk) \div n

\* the buffers the platform may hand to one invocation: 1..frames frames
\* of n interleaved samples (data.chunks(channels) yields the frames)
CallbackData(n, raw, frames) == SeqsUpTo([1..n -> raw], frames)

\* the mutant of callback_rest: a refused sample is kept and tried again
callback_rest_retry(data, ok) == IF ok THEN Tail(data) ELSE data

\* audio.rs:156-160  the for loop moves to the next chunk whatever try_push
\* returned (let _ = ...)
callback_rest(data, ok) == Tail(data)

\* the mutant of may_fire: the platform runs the callback of any stream
\* object, whether or not the build has armed it with its producer
may_fire_unbuilt(s) == s \in {"alloc", "built", "playing"}

\* audio.rs:152-154, 84  the platform invokes the callback of a stream that
\* play() has started, and on some platforms of one that was only built
may_fire(s) == s \in {"built", "playing"}

\* audio.rs:154  the platform invokes the callback
callback_fire(p, cap, raw, frames) ==
    /\ may_fire(stream[p])
    /\ cb[p] = <<>>
    /\ clock < cap
    /\ \E data \in CallbackData(channels[p], raw, frames) :
          /\ cb' = [cb EXCEPT ![p] = data]
          /\ frames_in' = [frames_in EXCEPT ![p] = Len(data)]
    /\ attempts' = [attempts EXCEPT ![p] = 0]
    /\ push_result' = [push_result EXCEPT ![p] = "none"]
    /\ UNCHANGED <<config, default_device, show_help, key,
                   app_vars, ctor_vars, stream, device_of,
                   sample_rate, buffer_size, channels, rb, task, popped, chan,
                   rx_alive, clock, last_pub, unseen, accepted, samples>>

\* audio.rs:156-160  one iteration of the callback's loop
callback_push(p) ==
    /\ cb[p] # <<>>
    /\ LET r == try_push(rb[p], buffer_size[p], Mean(Head(cb[p]), channels[p]))
       IN /\ rb' = [rb EXCEPT ![p] = r.buf]
          /\ cb' = [cb EXCEPT ![p] = callback_rest(cb[p], r.ok)]
          /\ push_result' = [push_result EXCEPT ![p] = IF r.ok THEN "ok" ELSE "full"]
          /\ attempts' = [attempts EXCEPT ![p] = @ + 1]
          /\ accepted' = [accepted EXCEPT ![p] =
                            IF r.ok THEN Append(@, Mean(Head(cb[p]), channels[p]))
                            ELSE @]
    /\ UNCHANGED <<config, default_device, show_help, key,
                   app_vars, ctor_vars, stream, device_of,
                   sample_rate, buffer_size, channels, task, popped, chan,
                   rx_alive, clock, last_pub, unseen, frames_in, samples>>

\* ------------------------------------------------ the FFT task (tokio)

\* the mutant of channel_send: the newest frame goes to the front
channel_send_front(queue, frame) == <<frame>> \o queue

\* audio.rs:62,120  the mpsc channel queues the frames in the order sent
channel_send(queue, frame) == Append(queue, frame)

\* audio.rs:96  if consumer.occupied_len() >= fft_size; otherwise the task
\* sleeps (125) and the loop comes back to this check
fft_check(p) ==
    /\ task[p] = "check"
    /\ IF occupied_len(rb[p]) >= Window
       THEN task' = [task EXCEPT ![p] = "pop"]
       ELSE task' = [task EXCEPT ![p] = "check"]
    /\ popped' = [popped EXCEPT ![p] = 0]
    /\ UNCHANGED <<config, default_device, show_help, key,
                   app_vars, ctor_vars, stream, device_of,
                   sample_rate, buffer_size, channels, rb, cb, chan, rx_alive,
                   hist_vars>>

\* audio.rs:97-99  one try_pop of the window, stored in samples; after the
\* last one the window, the FFT and the magnitudes (101-117) are computed
\* locally
fft_pop(p) ==
    /\ task[p] = "pop"
    /\ rb' = [rb EXCEPT ![p] = try_pop(rb[p]).buf]
    /\ popped' = [popped EXCEPT ![p] = @ + 1]
    /\ task' = [task EXCEPT ![p] = IF popped[p] + 1 = Window THEN "send" ELSE "pop"]
    /\ samples' = [samples EXCEPT ![p] = Append(@, try_pop(rb[p]).value)]
    /\ UNCHANGED <<config, default_device, show_help, key,
                   app_vars, ctor_vars, stream, device_of,
                   sample_rate, buffer_size, channels, cb, chan, rx_alive,
                   clock, last_pub, unseen, push_result, frames_in, attempts,
                   accepted>>

\* audio.rs:120-125  fft_tx_clone.send(magnitudes).await: Err once the
\* receiver is dropped (break); otherwise the frame is queued when the
\* channel has room, and the task stays suspended here while it is full.
\* After a send the task sleeps (125) and the loop starts over: every entry
\* of samples is overwritten before it is read again (97-99), so the window
\* is forgotten here.  A task that ends drops its consumer, the last owner
\* of the ring buffer.
fft_send(p) ==
    /\ task[p] = "send"
    /\ IF ~rx_alive[p]
       THEN /\ task' = [task EXCEPT ![p] = "exit"]
            /\ rb' = [rb EXCEPT ![p] = <<>>]
            /\ buffer_size' = [buffer_size EXCEPT ![p] = 0]
            /\ popped' = [popped EXCEPT ![p] = 0]
            /\ accepted' = [accepted EXCEPT ![p] = <<>>]
            /\ samples' = [samples EXCEPT ![p] = <<>>]
            /\ UNCHANGED <<chan, clock, last_pub, unseen>>
       ELSE /\ Len(chan[p]) < CHANNEL_CAPACITY
            /\ chan' = [chan EXCEPT ![p] =
                          channel_send(@, Frame(p, clock + 1, MagnitudeLen))]
            /\ clock' = clock + 1
            /\ last_pub' = [last_pub EXCEPT ![p] = clock + 1]
            /\ unseen' = IF audio_processor = p THEN unseen + 1 ELSE unseen
            /\ task' = [task EXCEPT ![p] = "check"]
            /\ accepted' = [accepted EXCEPT ![p] =
                              SubSeq(@, Len(samples[p]) + 1, Len(@))]
            /\ samples' = [samples EXCEPT ![p] = <<>>]
            /\ UNCHANGED <<rb, buffer_size, popped>>
    /\ UNCHANGED <<config, default_device, show_help, key,
                   app_vars, ctor_vars, stream, device_of,
                   sample_rate, channels, cb, rx_alive, push_result,
                   frames_in, attempts>>

\* ------------------------------------------ dropping an AudioProcessor

\* the mutant of drop_stream: the stream is left running
drop_stream_leak(s, p) == s

\* audio.rs:13  dropping AudioProcessor drops _stream: the hardware stream
\* is stopped and released
drop_stream(s, p) == [s EXCEPT ![p] = "dropped"]

\* audio.rs:12-16  drop of AudioProcessor p: _stream (and with it the
\* callback and the producer), then fft_rx with the frames still queued.
\* The platform lets a callback invocation in progress finish first.
drop_processor(p) ==
    /\ cb[p] = <<>>
    /\ stream' = drop_stream(stream, p)
    /\ device_of' = [device_of EXCEPT ![p] = 0]
    /\ sample_rate' = [sample_rate EXCEPT ![p] = 0]
    /\ channels' = [channels EXCEPT ![p] = 0]
    /\ rx_alive' = [rx_alive EXCEPT ![p] = FALSE]
    /\ chan' = [chan EXCEPT ![p] = <<>>]
    /\ last_pub' = [last_pub EXCEPT ![p] = 0]
    /\ unseen' = 0
    /\ push_result' = [push_result EXCEPT ![p] = "none"]
    /\ frames_in' = [frames_in EXCEPT ![p] = 0]
    /\ attempts' = [attempts EXCEPT ![p] = 0]

no_processor ==
    UNCHANGED <<stream, device_of, sample_rate, channels, rx_alive, chan,
                last_pub, unseen, push_result, frames_in, attempts>>

\* ----------------------------------------------- AudioProcessor::new

Constructing == pc \in {"new_selected", "new_default", "switch_new", "switch_rollback"}

FreePipes == {p \in Pipes : stream[p] = "none"}

\* the mutant of restore_index: the index stays on the device that failed
restore_index_skip(old, cur) == cur

\* main.rs:423  self.current_device_index = old_device_index
restore_index(old, cur) == old

\* the mutant of init_failed: App::new gives up when no pipeline can be built
init_failed_fatal == "fatal"

\* main.rs:84-96  App::new keeps going without audio: .ok() / Err => None
init_failed == "tick"

\* What the caller does with the result of AudioProcessor::new
\* (res = 0: Err, res = p: Ok(pipeline p)).
\*   main.rs:78-86   App::new, selected device: Err => try the default device
\*   main.rs:84-96   App::new, default device: Err => no audio
\*   main.rs:414-424 switch_audio_source, new device: Err => index restored,
\*                   previous device tried again
\*   main.rs:428-438 switch_audio_source, rollback: Err => no audio
Return(res) ==
    /\ ctor_p' = 0
    /\ CASE pc = "new_selected" ->
              IF res # 0
              THEN /\ pc' = "tick" /\ running' = TRUE /\ audio_processor' = res
                   /\ ctor_pc' = "idle" /\ ctor_dev' = 0
                   /\ UNCHANGED <<current_device_index, old_device_index>>
              ELSE /\ pc' = "new_default" /\ ctor_pc' = "start" /\ ctor_dev' = 0
                   /\ UNCHANGED <<running, audio_processor,
                                  current_device_index, old_device_index>>
         [] pc = "new_default" ->
              /\ pc' = IF res # 0 THEN "tick" ELSE init_failed
              /\ running' = TRUE /\ audio_processor' = res
              /\ ctor_pc' = "idle" /\ ctor_dev' = 0
              /\ UNCHANGED <<current_device_index, old_device_index>>
         [] pc = "switch_new" ->
              IF res # 0
              THEN /\ pc' = "tick" /\ audio_processor' = res
                   /\ ctor_pc' = "idle" /\ ctor_dev' = 0
                   /\ old_device_index' = 0
                   /\ UNCHANGED <<running, current_device_index>>
              ELSE /\ current_device_index' =
                          restore_index(old_device_index, current_device_index)
                   /\ pc' = "switch_rollback"
                   /\ ctor_pc' = "start" /\ ctor_dev' = old_device_index + 1
                   /\ UNCHANGED <<running, audio_processor, old_device_index>>
         [] pc = "switch_rollback" ->
              /\ pc' = "tick" /\ audio_processor' = res
              /\ ctor_pc' = "idle" /\ ctor_dev' = 0
              /\ old_device_index' = 0
              /\ UNCHANGED <<running, current_device_index>>
    /\ UNCHANGED <<fft_data, available_devices, latest>>

\* the mutant of Release: the error return forgets the stream it had built
Release_leak(p) ==
    /\ cb[p] = <<>>
    /\ device_of' = [device_of EXCEPT ![p] = 0]
    /\ sample_rate' = [sample_rate EXCEPT ![p] = 0]
    /\ channels' = [channels EXCEPT ![p] = 0]
    /\ rx_alive' = [rx_alive EXCEPT ![p] = FALSE]
    /\ accepted' = [accepted EXCEPT ![p] = <<>>]
    /\ push_result' = [push_result EXCEPT ![p] = "none"]
    /\ frames_in' = [frames_in EXCEPT ![p] = 0]
    /\ attempts' = [attempts EXCEPT ![p] = 0]
    /\ UNCHANGED <<stream, rb, buffer_size, cb, task, popped, chan, clock,
                   last_pub, unseen, samples>>

\* a failed AudioProcessor::new leaves nothing of pipeline p behind: its
\* locals (stream, producer, consumer, fft_tx, fft_rx) are dropped on
\* return, the stream after a callback invocation in progress has finished
Release(p) ==
    /\ cb[p] = <<>>
    /\ stream' = [stream EXCEPT ![p] = "none"]
    /\ device_of' = [device_of EXCEPT ![p] = 0]
    /\ sample_rate' = [sample_rate EXCEPT ![p] = 0]
    /\ channels' = [channels EXCEPT ![p] = 0]
    /\ rx_alive' = [rx_alive EXCEPT ![p] = FALSE]
    /\ rb' = [rb EXCEPT ![p] = <<>>]
    /\ buffer_size' = [buffer_size EXCEPT ![p] = 0]
    /\ accepted' = [accepted EXCEPT ![p] = <<>>]
    /\ push_result' = [push_result EXCEPT ![p] = "none"]
    /\ frames_in' = [frames_in EXCEPT ![p] = 0]
    /\ attempts' = [attempts EXCEPT ![p] = 0]
    /\ UNCHANGED <<cb, task, popped, chan, clock, last_pub, unseen, samples>>

\* the mutant of after_config: the stream is built straight away
after_config_build == "build"

\* audio.rs:56-62  what AudioProcessor::new does once it has the
\* configuration: the ring buffer and the channel, before the stream (68)
after_config == "alloc"

\* audio.rs:44-54  the device (the default one for None) and its default
\* input configuration
new_config ==
    /\ Constructing /\ ctor_pc = "start"
    /\ \/ \* no default device (47-49), or default_input_config fails (52)
          /\ Return(0)
          /\ UNCHANGED pipe_vars
       \/ /\ ctor_dev = 0 => default_device
          /\ FreePipes # {}
          /\ LET p == CHOOSE q \in FreePipes : \A o \in FreePipes : q <= o
                 supported == default_input_config(ctor_dev)
             IN /\ stream' = [stream EXCEPT ![p] = "config"]
                /\ device_of' = [device_of EXCEPT ![p] = ctor_dev]
                /\ sample_rate' = [sample_rate EXCEPT ![p] = supported.sample_rate]
                /\ channels' = [channels EXCEPT ![p] = supported.channels]
                /\ ctor_p' = p
          /\ ctor_pc' = after_config
          /\ UNCHANGED <<app_vars, ctor_dev, buffer_size, rb, cb, task, popped,
                         chan, rx_alive>>
    /\ UNCHANGED <<config, default_device, show_help, key, hist_vars>>

\* audio.rs:56-62  HeapRb::new(sample_rate as usize), split into producer
\* and consumer, and mpsc::channel(10)
new_alloc ==
    /\ Constructing /\ ctor_pc = "alloc"
    /\ stream' = [stream EXCEPT ![ctor_p] = "alloc"]
    /\ buffer_size' = [buffer_size EXCEPT ![ctor_p] = sample_rate[ctor_p]]
    /\ rx_alive' = [rx_alive EXCEPT ![ctor_p] = TRUE]
    /\ ctor_pc' = "build"
    /\ UNCHANGED <<config, default_device, show_help, key,
                   app_vars, ctor_dev, ctor_p, device_of,
                   sample_rate, channels, rb, cb, task, popped, chan,
                   hist_vars>>

\* audio.rs:68-81  the sample format is matched and the stream built
new_build ==
    /\ Constructing /\ ctor_pc = "build"
    /\ \/ \* unsupported sample format (78), or build_input_stream fails (81)
          /\ Release(ctor_p)
          /\ Return(0)
       \/ /\ stream' = [stream EXCEPT ![ctor_p] = "built"]
          /\ ctor_pc' = "play"
          /\ UNCHANGED <<app_vars, ctor_dev, ctor_p, device_of, sample_rate,
                         buffer_size, channels, rb, cb, task, popped, chan, rx_alive,
                         hist_vars>>
    /\ UNCHANGED <<config, default_device, show_help, key>>

\* audio.rs:84  stream.play()?
new_play ==
    /\ Constructing /\ ctor_pc = "play"
    /\ \/ /\ Release(ctor_p)
          /\ Return(0)
       \/ /\ stream' = [stream EXCEPT ![ctor_p] = "playing"]
          /\ ctor_pc' = "spawn"
          /\ UNCHANGED <<app_vars, ctor_dev, ctor_p, device_of, sample_rate,
                         buffer_size, channels, rb, cb, task, popped, chan, rx_alive,
                         hist_vars>>
    /\ UNCHANGED <<config, default_device, show_help, key>>

\* audio.rs:87-133  the FFT task is spawned and Ok(AudioProcessor) returned
new_spawn ==
    /\ Constructing /\ ctor_pc = "spawn"
    /\ task' = [task EXCEPT ![ctor_p] = "check"]
    /\ Return(ctor_p)
    /\ UNCHANGED <<config, default_device, show_help, key,
                   stream, device_of, sample_rate, buffer_size,
                   channels,
                   rb, cb, popped, chan, rx_alive, hist_vars>>


\* ---------------------------------------------------------- App::run

\* the mutant of drain_keep: the first frame drained is kept, not the last
drain_keep_first(prev, data) == IF prev = <<>> THEN <<data>> ELSE prev

\* audio.rs:185  latest = Some(data)
drain_keep(prev, data) == <<data>>

\* main.rs:195  self.audio_processor.as_ref().map(|p| p.sample_rate())
\*               .unwrap_or(44100), the rate shown in the chart's title
displayed_sample_rate ==
    IF audio_processor = 0 THEN FALLBACK_SAMPLE_RATE
    ELSE sample_rate[audio_processor]

\* main.rs:116-120  a turn of the loop begins: interval.tick().await, then
\* get_fft_data is called when there is an AudioProcessor (audio.rs:183)
run_tick ==
    /\ pc = "tick" /\ running
    /\ IF audio_processor = 0
       THEN pc' = "events" /\ UNCHANGED latest
       ELSE pc' = "drain" /\ latest' = <<>>
    /\ key' = <<>>
    /\ UNCHANGED <<config, default_device, show_help, running, audio_processor, fft_data,
                   available_devices, current_device_index, old_device_index,
                   ctor_vars, pipe_vars, hist_vars>>

\* audio.rs:184-186  while let Ok(data) = self.fft_rx.try_recv()
get_fft_data_recv ==
    /\ pc = "drain"
    /\ chan[audio_processor] # <<>>
    /\ latest' = drain_keep(latest, Head(chan[audio_processor]))
    /\ chan' = [chan EXCEPT ![audio_processor] = Tail(@)]
    /\ UNCHANGED <<config, default_device, show_help, key,
                   pc, running, audio_processor, fft_data,
                   available_devices, current_device_index, old_device_index,
                   ctor_vars, stream, device_of, sample_rate, buffer_size,
                   channels, rb,
                   cb, task, popped, rx_alive, hist_vars>>

\* the mutant of get_fft_data_return: the call waits for a first frame
\* (recv().await in place of try_recv())
get_fft_data_return_wait ==
    /\ pc = "drain"
    /\ chan[audio_processor] = <<>>
    /\ latest # <<>>
    /\ fft_data' = latest[1]
    /\ latest' = <<>>
    /\ pc' = "events"
    /\ unseen' = 0
    /\ UNCHANGED <<config, default_device, show_help, key,
                   running, audio_processor, available_devices,
                   current_device_index, old_device_index,
                   ctor_vars, pipe_vars, clock, last_pub, push_result,
                   frames_in, attempts, accepted, samples>>

\* audio.rs:184,187  try_recv finds the channel empty: latest is returned;
\* main.rs:121-123  and stored in fft_data when it is Some
get_fft_data_return ==
    /\ pc = "drain"
    /\ chan[audio_processor] = <<>>
    /\ fft_data' = IF latest # <<>> THEN latest[1] ELSE fft_data
    /\ latest' = <<>>
    /\ pc' = "events"
    /\ unseen' = 0
    /\ UNCHANGED <<config, default_device, show_help, key,
                   running, audio_processor, available_devices,
                   current_device_index, old_device_index,
                   ctor_vars, pipe_vars, clock, last_pub, push_result,
                   frames_in, attempts, accepted, samples>>

\* main.rs:133-137  no key press is waiting (the frame was rendered at 127-130)
run_no_event ==
    /\ pc = "events"
    /\ pc' = "tick"
    /\ UNCHANGED <<config, default_device, show_help, key,
                   running, audio_processor, fft_data,
                   available_devices, current_device_index, old_device_index,
                   latest, ctor_vars, pipe_vars, hist_vars>>


\* main.rs:342-395  on_key_event for a key that adjusts the Config: the
\* method called assigns cfg, and the loop goes on to its next turn
on_key_config(cfg) ==
    /\ pc = "events"
    /\ config' = cfg
    /\ pc' = "tick"
    /\ UNCHANGED <<default_device, show_help, running, audio_processor, fft_data,
                   available_devices, current_device_index, old_device_index,
                   latest, ctor_vars, pipe_vars, hist_vars>>

\* main.rs:365-367  + or =
key_increase_bar_count ==
    on_key_config([config EXCEPT !.bar_count = increase_bar_count(@)])

\* main.rs:368-370  - or _
key_decrease_bar_count ==
    on_key_config([config EXCEPT !.bar_count = decrease_bar_count(@)])

\* main.rs:373-375  r
key_increase_refresh_rate ==
    on_key_config([config EXCEPT !.refresh_rate = increase_refresh_rate(@)])

\* main.rs:376-378  R
key_decrease_refresh_rate ==
    on_key_config([config EXCEPT !.refresh_rate = decrease_refresh_rate(@)])

\* main.rs:360-362  c or C
key_next_color_scheme ==
    on_key_config([config EXCEPT !.color_scheme = next_color_scheme(@)])

\* main.rs:381-386  [ or ]: decrease_sensitivity and increase_sensitivity
\* (config.rs:68-75) assign the sensitivity only
key_sensitivity == on_key_config(config)

\* main.rs:243  the FPS figure of the status bar
fps == 1000 \div config.refresh_rate

\* main.rs:296  bins_per_bar in prepare_bar_data
bins_per_bar == Max(1, fft_data.len \div config.bar_count)

\* main.rs:351-352, 444-447  q, Esc or Ctrl+C: quit(); the loop ends
key_quit ==
    /\ pc = "events"
    /\ running' = FALSE
    /\ pc' = "done"
    /\ UNCHANGED <<config, default_device, show_help, audio_processor, fft_data,
                   available_devices, current_device_index, old_device_index,
                   latest, ctor_vars, pipe_vars, hist_vars>>

\* main.rs:389-391, 398-412  s: switch_audio_source up to the drop of the
\* old AudioProcessor
switch_audio_source ==
    /\ pc = "events"
    /\ IF available_devices = 0
       THEN /\ pc' = "tick"
            /\ UNCHANGED <<current_device_index, old_device_index,
                           audio_processor, ctor_vars, pipe_vars, last_pub,
                           unseen, push_result, frames_in, attempts>>
       ELSE /\ old_device_index' = current_device_index
            /\ current_device_index' = (current_device_index + 1) % available_devices
            /\ ctor_dev' = ((current_device_index + 1) % available_devices) + 1
            /\ ctor_pc' = "start"
            /\ ctor_p' = 0
            /\ audio_processor' = 0
            /\ pc' = "switch_new"
            /\ IF audio_processor # 0
               THEN drop_processor(audio_processor)
               ELSE no_processor
            /\ UNCHANGED <<rb, cb, task, popped>>
    /\ UNCHANGED <<config, default_device, show_help, running, fft_data,
                   available_devices, latest, buffer_size, clock, accepted,
                   samples>>

\* main.rs:355-357  h or H: the help overlay is shown from the next frame on
key_help ==
    /\ pc = "events"
    /\ show_help' = TRUE
    /\ pc' = "tick"
    /\ UNCHANGED <<config, default_device, running, audio_processor, fft_data,
                   available_devices, current_device_index, old_device_index,
                   latest, ctor_vars, pipe_vars, hist_vars>>

\* main.rs:344-347  the overlay is shown: it is hidden and the key is dropped
key_close_help ==
    /\ pc = "events"
    /\ show_help' = FALSE
    /\ pc' = "tick"
    /\ UNCHANGED <<config, default_device, running, audio_processor, fft_data,
                   available_devices, current_device_index, old_device_index,
                   latest, ctor_vars, pipe_vars, hist_vars>>

\* main.rs:393  _ => {}: any other key
key_ignored == on_key_config(config)

\* A key press is <<modifiers, code>> (KeyEvent.modifiers, KeyEvent.code).
\* crossterm reports a shifted letter as the upper-case character.
Modifiers == {"NONE", "CONTROL", "CONTROL|SHIFT"}
Codes == {"Esc", "q", "h", "c", "C", "+", "-", "r", "R", "[", "]", "s", "x"}
Keys ==
    {<<"NONE", c>> : c \in Codes}
        \cup {<<"CONTROL", "c">>, <<"CONTROL", "q">>, <<"CONTROL|SHIFT", "C">>}

\* the mutant of IsQuit: the colour-scheme arm (360) is tried before the
\* Ctrl+C alternative of the quit arm
IsQuit_plain(k) == k[2] \in {"Esc", "q"}

\* main.rs:351-352  the pattern of the quit arm: Esc or q under any
\* modifiers, c or C under exactly CONTROL
IsQuit(k) ==
    \/ k[2] \in {"Esc", "q"}
    \/ k[1] = "CONTROL" /\ k[2] \in {"c", "C"}

\* main.rs:349-394  the match of on_key_event: the first arm whose pattern
\* the key fits
match_key(k) ==
    CASE IsQuit(k) -> key_quit
      [] k[2] \in {"h", "H"} -> key_help
      [] k[2] \in {"c", "C"} -> key_next_color_scheme
      [] k[2] \in {"+", "="} -> key_increase_bar_count
      [] k[2] \in {"-", "_"} -> key_decrease_bar_count
      [] k[2] = "r" -> key_increase_refresh_rate
      [] k[2] = "R" -> key_decrease_refresh_rate
      [] k[2] \in {"[", "]"} -> key_sensitivity
      [] k[2] \in {"s", "S"} -> switch_audio_source
      [] OTHER -> key_ignored

\* the mutant of on_key_event: the early return is missing, the key is
\* matched whether the overlay is shown or not
on_key_event_matched(k) == match_key(k)

\* main.rs:342-395  on_key_event: a key pressed while the overlay is shown
\* closes it and is not matched
on_key_event(k) == IF show_help THEN key_close_help ELSE match_key(k)

\* main.rs:133-136, 330-339  event::poll finds an event, event::read
\* returns the key press k, and on_key_event handles it
handle_crossterm_events(k) ==
    /\ pc = "events"
    /\ key' = k
    /\ on_key_event(k)

\* main.rs:45-47  run returns: the App (and its AudioProcessor) is dropped,
\* main returns and the tokio runtime shuts down, cancelling every task
\* that has not finished
exit ==
    /\ pc = "done"
    /\ pc' = "exited"
    /\ audio_processor' = 0
    /\ IF audio_processor # 0
       THEN drop_processor(audio_processor)
       ELSE no_processor
    /\ task' = [p \in Pipes |->
                  IF task[p] \in {"check", "pop", "send"}
                  THEN "cancelled" ELSE task[p]]
    /\ rb' = [p \in Pipes |-> <<>>]
    /\ buffer_size' = [p \in Pipes |-> 0]
    /\ popped' = [p \in Pipes |-> 0]
    /\ accepted' = [p \in Pipes |-> <<>>]
    /\ samples' = [p \in Pipes |-> <<>>]
    /\ UNCHANGED <<config, default_device, show_help, key,
                   running, fft_data, available_devices,
                   current_device_index, old_device_index, latest, ctor_vars,
                   cb, clock>>

\* ------------------------------------------------------ specifications

\* main.rs:72-74  App::new has listed the devices (get_input_devices()
\* .unwrap_or_default()) and is about to build its first AudioProcessor:
\* for entry 0 when there is one (78), for the default device otherwise (88)
Init ==
    /\ default_device \in BOOLEAN
    /\ config = Config_default
    /\ show_help = FALSE
    /\ key = <<>>
    /\ available_devices \in 0..MaxDevices
    /\ pc = IF available_devices > 0 THEN "new_selected" ELSE "new_default"
    /\ ctor_pc = "start"
    /\ ctor_dev = IF available_devices > 0 THEN 1 ELSE 0
    /\ ctor_p = 0
    /\ running = FALSE
    /\ audio_processor = 0
    /\ fft_data = Frame(0, 0, INITIAL_BINS)
    /\ current_device_index = 0
    /\ old_device_index = 0
    /\ latest = <<>>
    /\ stream = [p \in Pipes |-> "none"]
    /\ device_of = [p \in Pipes |-> 0]
    /\ sample_rate = [p \in Pipes |-> 0]
    /\ buffer_size = [p \in Pipes |-> 0]
    /\ channels = [p \in Pipes |-> 0]
    /\ rb = [p \in Pipes |-> <<>>]
    /\ cb = [p \in Pipes |-> <<>>]
    /\ task = [p \in Pipes |-> "none"]
    /\ popped = [p \in Pipes |-> 0]
    /\ chan = [p \in Pipes |-> <<>>]
    /\ rx_alive = [p \in Pipes |-> FALSE]
    /\ clock = 0
    /\ last_pub = [p \in Pipes |-> 0]
    /\ unseen = 0
    /\ push_result = [p \in Pipes |-> "none"]
    /\ frames_in = [p \in Pipes |-> 0]
    /\ attempts = [p \in Pipes |-> 0]
    /\ accepted = [p \in Pipes |-> <<>>]
    /\ samples = [p \in Pipes |-> <<>>]

Callback(cap, raw, frames) ==
    \E p \in Pipes : callback_fire(p, cap, raw, frames) \/ callback_push(p)

FftTask == \E p \in Pipes : fft_check(p) \/ fft_pop(p) \/ fft_send(p)

Construct == new_config \/ new_alloc \/ new_build \/ new_play \/ new_spawn

Poll == run_tick \/ get_fft_data_recv \/ get_fft_data_return \/ run_no_event

Next ==
    \/ Callback(MaxFrames, Silence, 1)
    \/ FftTask
    \/ Construct
    \/ Poll
    \/ \E k \in {<<"NONE", "q">>, <<"NONE", "s">>} : handle_crossterm_events(k)
    \/ exit

Spec == Init /\ [][Next]_vars

\* One pipeline on its own: App::new has built the AudioProcessor for
\* device d (main.rs:78-79 for entry 0, main.rs:88-89 for the default
\* device) and run has set running (main.rs:113); no key is pressed.
PipeInit ==
    /\ default_device = TRUE
    /\ config = Config_default
    /\ show_help = FALSE
    /\ key = <<>>
    /\ available_devices \in 0..1
    /\ pc = "tick"
    /\ ctor_pc = "idle"
    /\ ctor_dev = 0
    /\ ctor_p = 0
    /\ running = TRUE
    /\ audio_processor = 1
    /\ fft_data = Frame(0, 0, INITIAL_BINS)
    /\ current_device_index = 0
    /\ old_device_index = 0
    /\ latest = <<>>
    /\ stream = [p \in Pipes |-> IF p = 1 THEN "playing" ELSE "none"]
    /\ device_of = [p \in Pipes |-> IF p = 1 THEN available_devices ELSE 0]
    /\ sample_rate = [p \in Pipes |->
          IF p = 1 THEN default_input_config(available_devices).sample_rate ELSE 0]
    /\ buffer_size = [p \in Pipes |->
          IF p = 1 THEN default_input_config(available_devices).sample_rate ELSE 0]
    /\ channels = [p \in Pipes |->
          IF p = 1 THEN default_input_config(available_devices).channels ELSE 0]
    /\ rb = [p \in Pipes |-> <<>>]
    /\ cb = [p \in Pipes |-> <<>>]
    /\ task = [p \in Pipes |-> IF p = 1 THEN "check" ELSE "none"]
    /\ popped = [p \in Pipes |-> 0]
    /\ chan = [p \in Pipes |-> <<>>]
    /\ rx_alive = [p \in Pipes |-> p = 1]
    /\ clock = 0
    /\ last_pub = [p \in Pipes |-> 0]
    /\ unseen = 0
    /\ push_result = [p \in Pipes |-> "none"]
    /\ frames_in = [p \in Pipes |-> 0]
    /\ attempts = [p \in Pipes |-> 0]
    /\ accepted = [p \in Pipes |-> <<>>]
    /\ samples = [p \in Pipes |-> <<>>]

\* the samples matter, the backlog of frames stays short
PipeNext ==
    \/ Callback(MaxFrames, RawSamples, MaxCbFrames)
    \/ FftTask
    \/ Poll

PipeSpec == PipeInit /\ [][PipeNext]_vars

\* the samples are silent, the consumer may fall behind until the result
\* channel is full
BacklogNext ==
    \/ Callback(MaxBacklog, Silence, MaxCbFrames)
    \/ FftTask
    \/ Poll

BacklogSpec == PipeInit /\ [][BacklogNext]_vars

\* Scheduling: tokio runs a task that is ready (FftTask), the main thread
\* runs on (Construct, Poll, exit), and the audio thread finishes the
\* callback invocation it is in.  Nothing obliges the platform to deliver
\* more data or the user to press a key.
Fairness ==
    /\ WF_vars(FftTask)
    /\ WF_vars(Construct)
    /\ WF_vars(Poll)
    /\ WF_vars(exit)
    /\ WF_vars(\E p \in Pipes : callback_push(p))

FairSpec == Spec /\ Fairness

\* the same scheduling for one pipeline whose consumer may fall behind
BacklogFairSpec == BacklogSpec /\ WF_vars(FftTask) /\ WF_vars(Poll)

\* The application with its keyboard, on audio that stays silent (no
\* callback is delivered, so the FFT task never finds a window and
\* get_fft_data returns None).
ConfigNext ==
    \/ Construct
    \/ run_tick
    \/ get_fft_data_return
    \/ run_no_event
    \/ \E k \in Keys : handle_crossterm_events(k)
    \/ exit

ConfigSpec == Init /\ [][ConfigNext]_vars


\* ---------------------------------------------------------------- claims

\* C1: under every interleaving of the callback's pushes and the FFT task's
\* pops, a ring buffer never holds more samples than its capacity (the
\* sample rate); a push against a full buffer is refused without waiting
\* (the callback's step is enabled) and leaves the contents, values and
\* order, as they were.
C1_RingBufferBounded ==
    /\ [](\A p \in Pipes :
            /\ stream[p] = "playing" => occupied_len(rb[p]) <= sample_rate[p]
            /\ cb[p] # <<>> => ENABLED callback_push(p))
    /\ [][\A p \in Pipes :
            (callback_push(p) /\ occupied_len(rb[p]) = sample_rate[p])
               => (rb'[p] = rb[p] /\ push_result'[p] = "full")]_vars

\* C1: a push has just been refused by a full buffer holding two different
\* values while the FFT task is in the middle of a window
C1_Witness ==
    \E p \in Pipes :
        /\ push_result[p] = "full"
        /\ occupied_len(rb[p]) = sample_rate[p]
        /\ \E i, j \in DOMAIN rb[p] : rb[p][i] # rb[p][j]
        /\ task[p] = "pop"

\* C2: when get_fft_data returns, it returns the most recently published
\* frame if any frame was published since it last returned (and the
\* application stores it), None otherwise; the channel is left empty.
C2_LatestFrameWins ==
    [][get_fft_data_return =>
         /\ chan'[audio_processor] = <<>>
         /\ IF unseen > 0
            THEN /\ latest = <<Frame(audio_processor, last_pub[audio_processor],
                                     MagnitudeLen)>>
                 /\ fft_data' = latest[1]
            ELSE /\ latest = <<>>
                 /\ fft_data' = fft_data]_vars

\* C2: three frames were published since the last poll; the drain has
\* emptied the channel and holds the third
C2_Witness ==
    /\ pc = "drain"
    /\ unseen = 3
    /\ chan[audio_processor] = <<>>
    /\ latest # <<>>
    /\ latest[1].stamp = last_pub[audio_processor]

\* C3: once an AudioProcessor is dropped, its FFT task eventually ends
\* (leaves its loop, or is cancelled with the runtime)
C3_TaskEndsAfterDrop ==
    \A p \in Pipes :
        (stream[p] = "dropped") ~> (task[p] \in {"exit", "cancelled"})

LiveStreams == {p \in Pipes : stream[p] \in {"built", "playing"}}

\* C4: at most one hardware stream is live; while an AudioProcessor is under
\* construction the application holds none and the only stream that may be
\* live is the one being built; an AudioProcessor the application holds is
\* the one live stream.
C4_OneLiveStream ==
    /\ Cardinality(LiveStreams) <= 1
    /\ Constructing => (audio_processor = 0 /\ LiveStreams \subseteq {ctor_p})
    /\ audio_processor # 0 => LiveStreams = {audio_processor}

\* C4: a switch has succeeded: the first stream is released, the second live
C4_Witness ==
    /\ pc = "tick"
    /\ audio_processor = 2
    /\ stream = [p \in Pipes |-> IF p = 1 THEN "dropped"
                                 ELSE IF p = 2 THEN "playing" ELSE "none"]
    /\ current_device_index = 1

C6_CallbackNeverWaits ==
    /\ [](\A p \in Pipes : cb[p] # <<>> => ENABLED callback_push(p))
    /\ [][\A p \in Pipes :
            callback_push(p) =>
               /\ cb'[p] = Tail(cb[p])
               /\ \/ rb'[p] = Append(rb[p], Mean(Head(cb[p]), channels[p]))
                  \/ /\ occupied_len(rb[p]) = sample_rate[p]
                     /\ rb'[p] = rb[p]
               /\ task'[p] = task[p] /\ chan'[p] = chan[p]]_vars

\* C6: the callback has run to completion and its last push was refused,
\* with the ring buffer full and the FFT task suspended on a full channel
C6_Witness ==
    \E p \in Pipes :
        /\ cb[p] = <<>>
        /\ push_result[p] = "full"
        /\ occupied_len(rb[p]) = sample_rate[p]
        /\ task[p] = "send"
        /\ Len(chan[p]) = CHANNEL_CAPACITY

NoInputDevice == available_devices = 0 /\ ~default_device

\* C7: with no input device, App::new ends without an AudioProcessor and
\* without an error; the loop runs, the rate shown is the fallback, no
\* stream and no task exists and fft_data keeps its initial value.
C7_NoDeviceNoAudio ==
    NoInputDevice =>
        /\ pc \in {"new_default", "tick", "events", "done", "exited"}
        /\ pc \in {"tick", "events"} => running
        /\ audio_processor = 0
        /\ displayed_sample_rate = FALLBACK_SAMPLE_RATE
        /\ fft_data = Frame(0, 0, INITIAL_BINS)
        /\ \A p \in Pipes : stream[p] = "none" /\ task[p] = "none"

\* C7: without any device the loop has been through a turn
C7_Witness ==
    /\ NoInputDevice
    /\ pc = "events"
    /\ running

\* C8: frames reach the consumer in the order they were published: the
\* channel holds them in that order, each frame drained was published after
\* the one drained before it, and each frame a poll returns was published
\* after the frame the previous poll returned.
C8_ProductionOrder ==
    /\ [](\A p \in Pipes : \A i, j \in DOMAIN chan[p] :
             i < j => chan[p][i].stamp < chan[p][j].stamp)
    /\ [][/\ get_fft_data_recv =>
                /\ latest # <<>> => latest[1].stamp < latest'[1].stamp
                /\ fft_data.stamp < latest'[1].stamp
          /\ (get_fft_data_return /\ latest # <<>>) =>
                fft_data.stamp < fft_data'.stamp]_vars

\* C8: a second poll is about to return a frame that is not the successor
\* of the frame the first poll returned
C8_Witness ==
    /\ pc = "drain"
    /\ chan[audio_processor] = <<>>
    /\ fft_data.stamp >= 1
    /\ latest # <<>>
    /\ latest[1].stamp > fft_data.stamp + 1

\* C9: every frame in a channel, every frame being drained and the frame
\* the application holds has 512 entries.
C9_FrameLength ==
    /\ fft_data.len = 512
    /\ latest # <<>> => latest[1].len = 512
    /\ \A p \in Pipes : \A i \in DOMAIN chan[p] : chan[p][i].len = 512

\* C9: the application holds a frame of the second pipeline
C9_Witness ==
    /\ fft_data.pipe = 2
    /\ fft_data.stamp >= 1

\* C11: a cycle of the FFT task that finds fewer than 1024 samples removes
\* nothing and publishes nothing; a cycle that finds 1024 or more removes
\* exactly 1024 (one per step, never fewer) and then publishes exactly one
\* frame if the receiver is still there; if the receiver was dropped
\* meanwhile, the frame is discarded and the task ends.
C11_AnalyzerCycle ==
    /\ [](\A p \in Pipes :
            /\ task[p] = "pop" => popped[p] < Window
            /\ task[p] = "send" => popped[p] = Window)
    /\ [][\A p \in Pipes :
            /\ (fft_check(p) /\ occupied_len(rb[p]) < Window) =>
                  /\ rb' = rb /\ chan' = chan /\ clock' = clock
                  /\ task'[p] = "check"
            /\ (fft_check(p) /\ occupied_len(rb[p]) >= Window) =>
                  /\ rb' = rb /\ chan' = chan /\ clock' = clock
                  /\ task'[p] = "pop" /\ popped'[p] = 0
            /\ fft_pop(p) =>
                  /\ occupied_len(rb'[p]) = occupied_len(rb[p]) - 1
                  /\ popped'[p] = popped[p] + 1
                  /\ chan' = chan /\ clock' = clock
            /\ (fft_send(p) /\ rx_alive[p]) =>
                  /\ rb' = rb
                  /\ Len(chan'[p]) = Len(chan[p]) + 1
                  /\ clock' = clock + 1
                  /\ task'[p] = "check"
            /\ (fft_send(p) /\ ~rx_alive[p]) =>
                  /\ chan' = chan /\ clock' = clock
                  /\ task'[p] = "exit"]_vars

\* C11: a frame was published by one cycle, and another cycle has removed
\* its window and ended without publishing because the receiver was dropped
C11_Witness ==
    /\ clock >= 1
    /\ \E p \in Pipes : task[p] = "exit" /\ stream[p] = "dropped"

\* C11 as stated: every cycle that removes a window publishes exactly one
\* frame
C11_EveryWindowPublished ==
    [][\A p \in Pipes :
         fft_send(p) => (clock' = clock + 1 /\ Len(chan'[p]) = Len(chan[p]) + 1)]_vars

\* no sample of pipeline p has been popped yet: its receiver is there, it
\* has published nothing and its task is not inside a window
NoPopYet(p) == rx_alive[p] /\ last_pub[p] = 0 /\ task[p] = "check"

\* C12: the samples popped for the current window followed by the contents
\* of the ring buffer are exactly the samples whose push succeeded and that
\* went into no earlier window, in push order: every window is the next
\* 1024 accepted samples, none duplicated, lost or reordered.  While nothing
\* has been popped, a push is refused only once C samples were accepted, and
\* the buffer then holds those first C samples in order.
C12_FifoDropNewest ==
    /\ [](\A p \in Pipes :
            task[p] \in {"check", "pop", "send"} =>
                samples[p] \o rb[p] = accepted[p])
    /\ [][\A p \in Pipes :
            /\ (fft_send(p) /\ rx_alive[p]) =>
                  /\ samples[p] = SubSeq(accepted[p], 1, Window)
                  /\ accepted'[p] = rb[p]
            /\ (callback_push(p) /\ NoPopYet(p) /\ push_result'[p] = "full") =>
                  /\ Len(accepted[p]) = sample_rate[p]
                  /\ rb'[p] = accepted[p]
                  /\ accepted'[p] = accepted[p]]_vars

\* C12: nothing was popped yet, the buffer is full of samples that are not
\* all equal and the last push was refused
C12_Witness ==
    \E p \in Pipes :
        /\ NoPopYet(p)
        /\ push_result[p] = "full"
        /\ occupied_len(rb[p]) = sample_rate[p]
        /\ rb[p] = accepted[p]
        /\ rb[p][1] # rb[p][2]

\* C13: once the occupancy check has passed, the buffer always holds at
\* least the samples the window still needs, whatever the callback does
\* meanwhile: no try_pop of a window fails (the 0.0 substitute is never
\* used), and each one returns the oldest sample a completed push put there.
C13_NoEmptyPop ==
    /\ [](\A p \in Pipes :
            task[p] = "pop" => Len(rb[p]) >= Window - popped[p])
    /\ [][\A p \in Pipes :
            fft_pop(p) =>
               /\ try_pop(rb[p]).ok
               /\ samples'[p] = SubSeq(accepted[p], 1, popped[p] + 1)]_vars

\* C13: the task is inside a window whose remaining samples are all the
\* buffer holds, while a callback invocation is in progress
C13_Witness ==
    \E p \in Pipes :
        /\ task[p] = "pop"
        /\ popped[p] >= 1
        /\ Len(rb[p]) = Window - popped[p]
        /\ cb[p] # <<>>

\* C14: a channel never holds more than 10 frames.  With 10 pending the
\* task's send is not enabled: the task stays at its send holding its frame,
\* and the pending frames change only by the consumer taking the oldest.
\* When the send completes, the frame is appended behind the pending ones;
\* and it does complete, once the consumer has polled.
C14_ChannelBounded ==
    /\ [](\A p \in Pipes :
            /\ Len(chan[p]) <= 10
            /\ (task[p] = "send" /\ rx_alive[p] /\ Len(chan[p]) = 10)
                  => ~ENABLED fft_send(p))
    /\ [][\A p \in Pipes :
            /\ (task[p] = "send" /\ rx_alive[p] /\ Len(chan[p]) = 10) =>
                  /\ task'[p] = "send"
                  /\ chan'[p] = chan[p] \/ chan'[p] = Tail(chan[p])
            /\ (fft_send(p) /\ rx_alive[p]) =>
                  /\ Len(chan[p]) < 10
                  /\ chan'[p] = Append(chan[p], Frame(p, clock + 1, MagnitudeLen))]_vars
    /\ \A p \in Pipes :
          (task[p] = "send" /\ Len(chan[p]) = 10) ~> (task[p] = "check")

\* C14: the send that was suspended on 10 pending frames has completed
\* after a poll: the eleventh frame is in the channel, the tenth was returned
C14_Witness ==
    \E p \in Pipes :
        /\ last_pub[p] = 11
        /\ chan[p] = <<Frame(p, 11, MagnitudeLen)>>
        /\ fft_data = Frame(p, 10, MagnitudeLen)

\* C15: a stream is built only after its ring buffer, of as many entries as
\* the configuration's sample rate, and its channel were created, and is
\* started only after it was built; so whenever a callback can fire or is
\* running, the buffer it pushes into exists.
C15_BuffersBeforeStream ==
    /\ [](\A p \in Pipes :
            (may_fire(stream[p]) \/ cb[p] # <<>>) =>
               /\ buffer_size[p] > 0
               /\ buffer_size[p] = default_input_config(device_of[p]).sample_rate
               /\ buffer_size[p] = sample_rate[p])
    /\ [][\A p \in Pipes :
            /\ (stream'[p] = "built" /\ stream[p] # "built") =>
                  (stream[p] = "alloc" /\ buffer_size[p] > 0 /\ rx_alive[p])
            /\ (stream'[p] = "playing" /\ stream[p] # "playing") =>
                  stream[p] = "built"
            /\ callback_push(p) => buffer_size[p] > 0]_vars

\* C15: a callback invocation is running during the construction, after
\* the stream was started and before the FFT task is spawned
C15_Witness ==
    /\ Constructing
    /\ ctor_pc = "spawn"
    /\ cb[ctor_p] # <<>>
    /\ task[ctor_p] = "none"

\* AudioProcessor::new returns Err with this step
NewFailed ==
    /\ Construct
    /\ ctor_pc \in {"start", "alloc", "build", "play"}
    /\ ctor_pc' \in {"start", "idle"}

\* C16: when AudioProcessor::new fails, at whichever step, its caller gets
\* the error (and handles it as an error) and nothing of the pipeline is
\* left: no stream is live, the pipeline has no stream, no ring buffer, no
\* channel, no callback and no FFT task.  A pipeline under construction
\* has no FFT task, and a task exists only for a stream that was started.
C16_AtomicConstruction ==
    /\ [](\A p \in Pipes :
            /\ (Constructing /\ p = ctor_p) => task[p] = "none"
            /\ task[p] \in {"check", "pop", "send"} =>
                  stream[p] \in {"playing", "dropped"})
    /\ [][NewFailed =>
            /\ LiveStreams' = {}
            /\ ctor_p # 0 =>
                  /\ stream'[ctor_p] = "none" /\ task'[ctor_p] = "none"
                  /\ buffer_size'[ctor_p] = 0 /\ rb'[ctor_p] = <<>>
                  /\ ~rx_alive'[ctor_p] /\ cb'[ctor_p] = <<>>
            /\ audio_processor' = 0
            /\ pc = "new_selected" => pc' = "new_default"
            /\ pc = "new_default" => pc' = "tick"
            /\ pc = "switch_new" => pc' = "switch_rollback"
            /\ pc = "switch_rollback" => pc' = "tick"]_vars

\* C16: AudioProcessor::new has failed twice in a switch, for the new
\* device and for the previous one; the task of the pipeline that was
\* dropped is all that is left
C16_Witness ==
    /\ pc = "tick"
    /\ audio_processor = 0
    /\ LiveStreams = {}
    /\ \E p \in Pipes : stream[p] = "dropped"
    /\ \A p \in Pipes : stream[p] \in {"none", "dropped"}

\* C17: an invocation handed F frames of `channels` samples each has made
\* F - (frames left) push attempts at every moment, so exactly F when it
\* completes; each attempt is for the first frame left (frame order), and
\* the value an accepted attempt puts at the end of the buffer, times
\* `channels`, is the sum of that frame's samples: its arithmetic mean.
C17_MeanPerFrame ==
    /\ [](\A p \in Pipes :
            /\ attempts[p] + Len(cb[p]) = frames_in[p]
            /\ \A k \in DOMAIN cb[p] : Len(cb[p][k]) = channels[p])
    /\ [][\A p \in Pipes :
            callback_push(p) =>
               /\ attempts'[p] = attempts[p] + 1
               /\ cb'[p] = Tail(cb[p])
               /\ \/ /\ push_result'[p] = "ok"
                     /\ Len(rb'[p]) = Len(rb[p]) + 1
                     /\ SubSeq(rb'[p], 1, Len(rb[p])) = rb[p]
                     /\ rb'[p][Len(rb'[p])] * channels[p] = Sum(Head(cb[p]))
                  \/ /\ push_result'[p] = "full"
                     /\ rb'[p] = rb[p]]_vars

\* C17: a stereo invocation of two frames has completed with two attempts,
\* both accepted: the means 1 (of 0 and 2) and 2 (of 2 and 2), in that order
C17_Witness ==
    \E p \in Pipes :
        /\ channels[p] = 2
        /\ frames_in[p] = 2
        /\ attempts[p] = 2
        /\ cb[p] = <<>>
        /\ NoPopYet(p)
        /\ rb[p] = <<1, 2>>

\* C18: a call of get_fft_data never waits: while it is in progress one of
\* its two steps is enabled, whatever the FFT task is doing.  Each turn of
\* its loop takes one frame off the channel; it returns as soon as try_recv
\* finds the channel empty, with None (fft_data is left alone) if it took
\* nothing.  Every call returns, also when frames are published while it
\* drains.
C18_PollReturns ==
    /\ [](pc = "drain" =>
            /\ audio_processor # 0
            /\ ENABLED (get_fft_data_recv \/ get_fft_data_return)
            /\ chan[audio_processor] = <<>> => ENABLED get_fft_data_return)
    /\ [][/\ get_fft_data_recv =>
               /\ Len(chan'[audio_processor]) = Len(chan[audio_processor]) - 1
               /\ latest' # <<>>
          /\ get_fft_data_return =>
               /\ chan[audio_processor] = <<>>
               /\ pc' = "events"
               /\ latest = <<>> => fft_data' = fft_data
          /\ (pc = "drain" /\ pc' # "drain") => get_fft_data_return]_vars
    /\ (pc = "drain") ~> (pc = "events")

\* C18: a call has taken at least one frame and finds the channel full
\* again: frames were published while it was draining
C18_Witness ==
    /\ pc = "drain"
    /\ latest # <<>>
    /\ Len(chan[audio_processor]) = CHANNEL_CAPACITY

\* C19: once App::new has returned, current_device_index is a valid index
\* of a non-empty device list at every point where the main loop or the
\* status bar reads it, and the AudioProcessor the App holds was built for
\* available_devices[current_device_index].
C19_DeviceIndexMatches ==
    pc \in {"tick", "drain", "events", "done"} =>
        /\ available_devices > 0 => current_device_index \in 0..(available_devices - 1)
        /\ (available_devices > 0 /\ audio_processor # 0) =>
               device_of[audio_processor] = current_device_index + 1

\* C20: whatever keys are pressed, starting from Config::default, bar_count
\* stays within 8..128 and refresh_rate within 8..100; neither is ever 0,
\* so the divisions by refresh_rate in render_status and by bar_count in
\* prepare_bar_data are defined.
C20_ConfigInRange ==
    /\ config.bar_count \in 8..128
    /\ config.refresh_rate \in 8..100
    /\ config.bar_count # 0 /\ config.refresh_rate # 0
    /\ fps \in 10..125
    /\ bins_per_bar >= 1

\* C20: the keys have driven bar_count to its lower limit and refresh_rate
\* to its upper limit, and one more of the same key has been handled there
C20_Witness ==
    /\ pc = "tick"
    /\ config.bar_count = 8
    /\ config.refresh_rate = 100
    /\ config.color_scheme = "Yellow"

\* a step in which handle_crossterm_events reads and handles the key press k
\* (key is <<>> from the start of a turn of the loop until then)
KeyHandled(k) == pc = "events" /\ key = <<>> /\ key' = k

\* the key presses the help text calls Quit, as crossterm reports them
QuitKeys == {<<"NONE", "q">>, <<"NONE", "Esc">>, <<"CONTROL", "c">>}

\* C21 as stated: whenever a key press of q, Esc or Ctrl+C is handled,
\* running becomes false and the main loop ends.
C21_QuitKeyAlwaysQuits ==
    [][\A k \in QuitKeys : KeyHandled(k) => (~running' /\ pc' = "done")]_vars

\* C21: a key press of q, Esc or Ctrl+C handled while the help overlay is
\* hidden sets running to false and changes nothing else; the loop then
\* takes no further turn and handles no further key, run returns.  Handled
\* while the overlay is shown, the same key press only hides the overlay and
\* the application keeps running.
C21_QuitKeyQuits ==
    /\ [][\A k \in QuitKeys :
            /\ (KeyHandled(k) /\ ~show_help) =>
                  /\ running /\ ~running'
                  /\ pc' = "done"
                  /\ UNCHANGED <<show_help, config, audio_processor,
                                 current_device_index, fft_data, pipe_vars>>
            /\ (KeyHandled(k) /\ show_help) =>
                  /\ running' /\ ~show_help'
                  /\ pc' = "tick"]_vars
    /\ [](pc = "done" =>
            /\ ~running
            /\ ~ENABLED (Poll \/ \E k \in Keys : handle_crossterm_events(k))
            /\ ENABLED exit)
    /\ [](pc = "exited" => ~running)

\* C21: Ctrl+C has been handled with the overlay hidden: the loop has ended
C21_Witness ==
    /\ pc = "done"
    /\ key = <<"CONTROL", "c">>
    /\ ~running
    /\ ~show_help

\* C22: while the help overlay is shown every key can be handled, and
\* handling it, whatever the key, hides the overlay and changes nothing
\* else: the configuration, the audio device and its pipeline, and the
\* running flag stay as they are, and the loop goes on.  Nothing but a
\* handled key press hides the overlay.
C22_AnyKeyClosesHelp ==
    /\ [][\A k \in Keys :
            (KeyHandled(k) /\ show_help) =>
                /\ ~show_help'
                /\ pc' = "tick"
                /\ UNCHANGED <<config, running, audio_processor, fft_data,
                               available_devices, current_device_index,
                               ctor_vars, pipe_vars>>]_vars
    /\ [][(show_help /\ ~show_help') => \E k \in Keys : KeyHandled(k)]_vars
    /\ []((pc = "events" /\ show_help) =>
            \A k \in Keys : ENABLED handle_crossterm_events(k))

\* C22: q has been handled and the loop goes on with the overlay hidden and
\* a bar count the keys have changed before: the key press closed the overlay
C22_Witness ==
    /\ pc = "tick"
    /\ key = <<"NONE", "q">>
    /\ running
    /\ ~show_help
    /\ config.bar_count = 40

============================================================================
